---- MODULE Spec2Model ----
(***************************************************************************)
(* A model of koishi-plugin-pku-blackboard-watcher: the authenticated      *)
(* session (BlackboardClient), the notice and calendar sync passes         *)
(* (NoticeHandler.process, CalendarHandler.process), the record tables     *)
(* and the two entry points that run a check for one identity              *)
(* (ScheduleService.checkSingleUser and the blackboard.check command).     *)
(*                                                                         *)
(* Strings whose content the code inspects (course names, event codes,     *)
(* page titles, category strings) are sequences of one-character strings.  *)
(***************************************************************************)
EXTENDS Integers, Sequences, FiniteSets, TLC

(***************************************************************************)
(* Bounds of the model.                                                    *)
(***************************************************************************)
\* longest feed response (number of raw entries) a fetch returns
MaxEntries == 2
\* number of sync passes the checks started in one behaviour are set to run
MaxPasses == 2
\* longest content of a title element the title test is applied to
MaxTitle == 3

(***************************************************************************)
(* Strings.                                                                *)
(***************************************************************************)
UPPER == <<"A","B","C","D","E","F","G","H","I","J","K","L","M",
           "N","O","P","Q","R","S","T","U","V","W","X","Y","Z">>
LOWER == <<"a","b","c","d","e","f","g","h","i","j","k","l","m",
           "n","o","p","q","r","s","t","u","v","w","x","y","z">>

\* String.prototype.toLowerCase on one character
LowerChar(c) ==
    IF \E i \in DOMAIN UPPER : UPPER[i] = c
    THEN LOWER[CHOOSE i \in DOMAIN UPPER : UPPER[i] = c]
    ELSE c

\* String.prototype.toLowerCase
toLowerCase(s) == [i \in DOMAIN s |-> LowerChar(s[i])]

\* String.prototype.startsWith
startsWith(s, prefix) ==
    /\ Len(prefix) <= Len(s)
    /\ SubSeq(s, 1, Len(prefix)) = prefix

\* String.prototype.includes for a one-character needle
includes(s, c) == \E i \in DOMAIN s : s[i] = c

\* the white space String.prototype.trim removes (blank, line feed, tab)
WHITESPACE == {" ", "\n", "\t"}

\* String.prototype.trim
RECURSIVE trimStart(_)
trimStart(s) == IF s # <<>> /\ Head(s) \in WHITESPACE THEN trimStart(Tail(s)) ELSE s
RECURSIVE trimEnd(_)
trimEnd(s) ==
    IF s # <<>> /\ s[Len(s)] \in WHITESPACE THEN trimEnd(SubSeq(s, 1, Len(s) - 1)) ELSE s
trim(s) == trimEnd(trimStart(s))

\* s.replace(/<[^>]*>/g, ''): every "<" up to the next ">" is removed
RECURSIVE stripTags(_)
stripTags(s) ==
    IF s = <<>> THEN <<>>
    ELSE IF Head(s) = "<" /\ \E k \in 2..Len(s) : s[k] = ">"
    THEN stripTags(SubSeq(s, (CHOOSE k \in 2..Len(s) : s[k] = ">" /\ \A j \in 2..(k-1) : s[j] # ">") + 1,
                          Len(s)))
    ELSE <<Head(s)>> \o stripTags(Tail(s))

\* removeSuffix: courseName.replace(/\([^()]*\)$/, ''), the same expression
\* CalendarHandler.filterAssignmentInfo applies to calendarName
removeSuffix(courseName) ==
    LET n == Len(courseName)
        opens == {i \in 1..n : /\ courseName[i] = "("
                               /\ courseName[n] = ")"
                               /\ \A j \in (i+1)..(n-1) : courseName[j] \notin {"(", ")"}}
    IN  IF n >= 2 /\ opens # {}
        THEN SubSeq(courseName, 1, (CHOOSE i \in opens : \A k \in opens : i <= k) - 1)
        ELSE courseName

(***************************************************************************)
(* The remote platform: the items it can serve.                            *)
(***************************************************************************)
INIT_ID == "%init%"

AS_AVAIL == <<"A","S",":","A","S","_","A","V","A","I","L">>
AN_AVAIL == <<"A","N",":","A","N","_","A","V","A","I","L">>
CO_AVAIL == <<"C","O",":","C","O","_","A","V","A","I","L">>

LinearAlgebra == <<"L","i","n","e","a","r"," ","A","l","g","e","b","r","a">>
LinearAlgebraTerm == LinearAlgebra \o <<"(","2","5",")">>
Calculus == <<"C","a","l","c","u","l","u","s">>
Personal == <<"P">>

\* raw entries of the notice stream (sv_streamEntries), with the course name
\* sx_courses gives for se_courseId
NoticeCatalogue ==
    { [se_id |-> "n1", courseName |-> LinearAlgebraTerm, event_type |-> AS_AVAIL,
       se_itemUri |-> TRUE],
      [se_id |-> "n2", courseName |-> LinearAlgebraTerm, event_type |-> AN_AVAIL,
       se_itemUri |-> FALSE] }

\* raw entries of the calendar feed; Personal stands for the calendar name
\* of the user's own events
CalendarCatalogue ==
    { [id |-> "c1", calendarName |-> Personal],
      [id |-> "c2", calendarName |-> LinearAlgebraTerm] }

NoticeEntry(id) == CHOOSE e \in NoticeCatalogue : e.se_id = id
CalendarEntry(id) == CHOOSE e \in CalendarCatalogue : e.id = id

NoticeIds == {e.se_id : e \in NoticeCatalogue}
CalendarIds == {e.id : e \in CalendarCatalogue}

\* the upload pages a detail request can return: a title element or none.
\* MARKER stands for the re-submission character the title of an
\* already-attempted page starts with.
NoPage == [hasTitle |-> FALSE, title |-> <<>>]
ReTitle == <<" ","R","e","s","u","b","m","i","t">>
FirstTitle == <<"S","u","b","m","i","t">>
MARKER == "R"
DetailPages == { [hasTitle |-> TRUE, title |-> ReTitle],
                 [hasTitle |-> TRUE, title |-> FirstTitle],
                 NoPage }

\* hasAttempted without the trim
hasAttempted_NoTrim(assignmentHtml) ==
    /\ assignmentHtml.hasTitle
    /\ assignmentHtml.title # <<>>
    /\ LET titleText == stripTags(assignmentHtml.title)
       IN  Len(titleText) > 0 /\ titleText[1] = MARKER

\* hasAttempted: the content of the page's first title element, its tags
\* removed and trimmed, starts with the marker character
hasAttempted(assignmentHtml) ==
    /\ assignmentHtml.hasTitle
    /\ assignmentHtml.title # <<>>
    /\ LET titleText == trim(stripTags(assignmentHtml.title))
       IN  Len(titleText) > 0 /\ titleText[1] = MARKER

(***************************************************************************)
(* Per-identity configuration (table bb_watcher_config).                   *)
(***************************************************************************)
NoOverrides == <<>>

\* the row ctx.model.extend('bb_watcher_config') creates by default
DefaultConfig ==
    [ notifyNotice |-> TRUE,
      notifyAssignment |-> TRUE,
      generalAllowedEvents |-> <<"1","2","3">>,
      specificCourseEvents |-> NoOverrides,
      calendarAdvanceHours |-> 24 ]

\* specificEvents[key] || generalAllowedEvents: a missing key and an empty
\* string are both falsy
OverrideOr(specificEvents, key, general) ==
    IF key \in DOMAIN specificEvents /\ specificEvents[key] # <<>>
    THEN specificEvents[key]
    ELSE general

\* the key NoticeHandler.isEventAllowed looks the course up under
LookupKey(course) == toLowerCase(course)

\* NoticeHandler.isEventAllowed
isEventAllowed(config, course, event) ==
    LET allowedEvents == OverrideOr(config.specificCourseEvents, LookupKey(course),
                                    config.generalAllowedEvents)
    IN  IF startsWith(event, <<"A","S">>) THEN includes(allowedEvents, "1")
        ELSE IF startsWith(event, <<"C","O">>) THEN includes(allowedEvents, "2")
        ELSE includes(allowedEvents, "3")

(***************************************************************************)
(* The credential cipher (CryptoUtils).  AES-256-CBC is modelled by what   *)
(* it guarantees: a ciphertext opens under the 32-byte key it was made     *)
(* with; under any other key the final block's padding is almost always    *)
(* rejected, and otherwise bytes unrelated to the secret come out.  Keys   *)
(* are strings of one-byte characters.                                     *)
(***************************************************************************)
\* the key length of aes-256-cbc, in bytes
KEY_LENGTH == 32
FILLER == "0"

\* String.prototype.padEnd with a one-character filler
padEnd(str, n, c) ==
    IF Len(str) >= n THEN str ELSE str \o [i \in 1..(n - Len(str)) |-> c]

\* String.prototype.slice(0, n)
slice(str, n) == IF Len(str) <= n THEN str ELSE SubSeq(str, 1, n)

\* the key used without padding
KeyBytes_NoPad(encryptionKey) == slice(encryptionKey, KEY_LENGTH)

\* Buffer.from(this.encryptionKey.padEnd(32, '0').slice(0, 32))
KeyBytes(encryptionKey) == slice(padEnd(encryptionKey, KEY_LENGTH, FILLER), KEY_LENGTH)

\* createCipheriv / createDecipheriv throw for a key of another length
ValidKey(keyBytes) == Len(keyBytes) = KEY_LENGTH

\* what the cipher returns in place of the secret when a wrong key happens
\* to leave valid padding
Garbage == <<"?">>

Threw == [ok |-> FALSE, value |-> <<>>]
Returned(v) == [ok |-> TRUE, value |-> v]

\* CryptoUtils.encrypt: iv.toString('hex') + ':' + encrypted
encrypt(encryptionKey, text, iv) ==
    IF ValidKey(KeyBytes(encryptionKey))
    THEN Returned([iv |-> iv, key |-> KeyBytes(encryptionKey), text |-> text])
    ELSE Threw

\* CryptoUtils.decrypt: the results it can have for a stored value
decrypt(encryptionKey, stored) ==
    IF stored = <<>> THEN {Returned(<<>>)}
    ELSE IF ~ValidKey(KeyBytes(encryptionKey)) THEN {Threw}
    ELSE IF KeyBytes(encryptionKey) = stored.key THEN {Returned(stored.text)}
    ELSE {Threw, Returned(Garbage)}

Key32 == [i \in 1..KEY_LENGTH |-> "k"]
\* operator keys: shorter than, as long as and longer than the key length
EncryptionKeys ==
    { <<>>, <<"k">>, <<"k", "0">>, <<"j">>, Key32, Key32 \o <<"x">>, Key32 \o <<"y">> }
Secrets == { <<>>, <<"p">>, <<"p", "w">>, <<"p", ":", "w">> }
IVs == {"iv1", "iv2"}

(***************************************************************************)
(* State.                                                                  *)
(***************************************************************************)
Users == {"u1", "u2"}
\* "sched" runs ScheduleService.checkSingleUser, "manual" the
\* blackboard.check command
Procs == {"sched", "manual"}
Kinds == {"notice", "calendar"}

\* the row of iaaa_user an identity bound before the behaviour starts has
StoredRow(u) ==
    [userId |-> u, username |-> <<"s", "1">>,
     password |-> encrypt(Key32, <<"p">>, "iv1").value]

VARIABLES
    iaaa_user,          \* table iaaa_user: the identities with a stored credential
    bb_watcher_config,  \* table bb_watcher_config: identity -> configuration
    notice_record,      \* table notice_record: identity -> rows, in creation order
    assignment_record,  \* table assignment_record: identity -> rows, in creation order
    chk,                \* the check each entry point has in flight
    passCount,          \* sync passes started so far
    call,               \* the last evaluation of isEventAllowed: arguments and result
    sweep,              \* ScheduleService.checkAllUsers: position, users left, users done
    delivered,          \* messages that reached the user: <<identity, kind, what>> -> number
    iaaa_credential     \* table iaaa_user: the rows' userId, username and password

vars == <<iaaa_user, bb_watcher_config, notice_record, assignment_record, chk, passCount, call,
          sweep, delivered, iaaa_credential>>

\* nothing has reached any user yet
NoneDelivered == [k \in Users \X Kinds \X ({"init"} \cup NoticeIds \cup CalendarIds) |-> 0]

\* session.send / bot.sendPrivateMessage returned: the message reached the
\* user when the send succeeded
Deliver(d, u, kind, what, ok) ==
    IF ok THEN [d EXCEPT ![<<u, kind, what>>] = @ + 1] ELSE d

\* no sweep running
IdleSweep == [pc |-> "idle", queue |-> <<>>, done |-> {}, delayed |-> FALSE]

\* a check that is not running
IdleCheck ==
    [ pc |-> "idle",
      userId |-> "none",
      bbConfig |-> DefaultConfig,   \* snapshot read by getOrCreateBBConfig
      cookies |-> {},               \* BlackboardClient.cookies (names)
      decryptResult |-> "none",     \* how crypto.decrypt(iaaaUser.password) ended
      loginResult |-> "none",       \* what login() saw; its boolean result is dropped
      dataOps |-> {},               \* data requests issued: <<operation, authenticated>>
      kind |-> "none",              \* the pass in progress
      before |-> <<>>,              \* the identity's rows when the pass started
      error |-> "none",             \* what process()'s catch caught
      entries |-> <<>>,             \* ids of the raw entries the feed returned
      oldIds |-> {},                \* ids read from the record table
      isInit |-> FALSE,
      updated |-> <<>>,             \* updatedNoticeRecords / updatedAssignmentRecords
      idx |-> 0,                    \* position of the running loop
      sent |-> <<>>,                \* session.send calls of this pass
      created |-> <<>>,             \* ctx.database.create calls of this pass
      aborted |-> FALSE,            \* an exception left process()
      failures |-> <<>>,            \* what the catch blocks of this check's passes caught
      errorMsgs |-> 0,              \* error messages of this check that reached the user
      reply |-> "none" ]            \* what the command returned

\* the session holds the platform's session cookie
Authenticated(c) == "s_session_id" \in c.cookies

Table(kind) == IF kind = "notice" THEN notice_record ELSE assignment_record

\* ids of the rows of one identity (records.map(record => record.noticeId))
RecordIds(rows) == {rows[i].id : i \in DOMAIN rows}

\* the configurations the initial states draw from
InitConfigs ==
    { DefaultConfig,
      [DefaultConfig EXCEPT !.notifyAssignment = FALSE],
      [DefaultConfig EXCEPT !.notifyNotice = FALSE],
      [DefaultConfig EXCEPT !.notifyAssignment = FALSE,
                            !.generalAllowedEvents = <<"3">>],
      [DefaultConfig EXCEPT !.notifyAssignment = FALSE,
                            !.generalAllowedEvents = <<"3">>,
                            !.specificCourseEvents = (toLowerCase(LinearAlgebra) :> <<"1">>)] }

\* no evaluation yet
NoCall == [done |-> FALSE, course |-> <<>>, event |-> <<>>, result |-> FALSE]

Init ==
    /\ call = NoCall
    /\ sweep = IdleSweep
    /\ delivered = NoneDelivered
    /\ iaaa_user = {"u1"}
    /\ iaaa_credential = {StoredRow(u) : u \in {"u1"}}
    /\ bb_watcher_config \in [{"u1"} -> InitConfigs]
    /\ notice_record = [u \in Users |-> <<>>]
    /\ assignment_record = [u \in Users |-> <<>>]
    /\ chk = [p \in Procs |-> IdleCheck]
    /\ passCount = 0

\* getOrCreateBBConfig: the stored row, or a new row of defaults
ConfigOf(u) == IF u \in DOMAIN bb_watcher_config THEN bb_watcher_config[u] ELSE DefaultConfig

\* number of passes a check with this configuration runs
PassesOf(config) ==
    (IF config.notifyNotice THEN 1 ELSE 0) + (IF config.notifyAssignment THEN 1 ELSE 0)

NoCheckRunning == \A q \in Procs : chk[q].pc = "idle"

\* a pass starts: fresh locals of process()
BeginPass(c, kind) ==
    [c EXCEPT !.pc = "fetch", !.kind = kind, !.entries = <<>>, !.oldIds = {},
              !.isInit = FALSE, !.updated = <<>>, !.idx = 0, !.sent = <<>>,
              !.created = <<>>, !.error = "none",
              !.before = Table(kind)[c.userId]]

\* the statements after login(): the notice pass if enabled, else the
\* calendar pass if enabled, else the end of the check
AfterLogin(c) ==
    IF c.bbConfig.notifyNotice THEN BeginPass(c, "notice")
    ELSE IF c.bbConfig.notifyAssignment THEN BeginPass(c, "calendar")
    ELSE [c EXCEPT !.pc = "check_done"]

\* the statements after noticeHandler.process() / calendarHandler.process()
AfterPass(c) ==
    IF c.kind = "notice" /\ c.bbConfig.notifyAssignment THEN BeginPass(c, "calendar")
    ELSE [c EXCEPT !.pc = "check_done"]

(***************************************************************************)
(* The collaborators' answers.                                             *)
(***************************************************************************)
\* every feed response of at most MaxEntries raw entries
Feeds(kind) ==
    UNION { [1..n -> (IF kind = "notice" THEN NoticeIds ELSE CalendarIds)] : n \in 0..MaxEntries }

\* what the platform serves a session: its feeds when the session carries
\* the platform cookie, an empty document otherwise
Served(c) == IF Authenticated(c) THEN Feeds(c.kind) ELSE {<<>>}

\* an exception reaches process()'s catch
Throw(c, what) == [c EXCEPT !.pc = "catch", !.error = what, !.failures = Append(@, what)]

\* the client swallowing the failure and returning an empty document
AfterFetchFailure_Swallow(c) ==
    [c EXCEPT !.pc = "read", !.error = "feed", !.failures = Append(@, "feed")]

\* getNoticeData / getCalendarData failed: the client rethrows
AfterFetchFailure(c) == Throw(c, "feed")

\* session.send raises to its caller: the command's session does when the
\* delivery fails, the scheduler's mockSession logs and returns
SendThrows(p, ok) == p = "manual" /\ ~ok

Msg(type, id, ok) == [type |-> type, id |-> id, ok |-> ok]

(***************************************************************************)
(* The steps of process().                                                 *)
(***************************************************************************)
\* step 5/6: if (updatedRecords.length > 0) createRecords(...)
EnterPersist(c) ==
    IF Len(c.updated) > 0 THEN [c EXCEPT !.pc = "persist", !.idx = 1]
    ELSE [c EXCEPT !.pc = "pass_done"]

\* the records saved as soon as the first of them has been handled
EnterNotify_SaveEarly(c) ==
    IF c.idx <= Len(c.updated) /\ c.idx <= 1 THEN [c EXCEPT !.pc = "notify"] ELSE EnterPersist(c)

\* the notification loop at position c.idx
EnterNotify(c) ==
    IF c.idx <= Len(c.updated) THEN [c EXCEPT !.pc = "notify"] ELSE EnterPersist(c)

\* the first-run branch lost: every pass notifies
AfterFilter_NoFirstRun(c) == EnterNotify([c EXCEPT !.idx = 1])

\* step 4/5: if (isInit) ... else ...
AfterFilter(c) ==
    IF c.isInit THEN [c EXCEPT !.pc = "init_send"] ELSE EnterNotify([c EXCEPT !.idx = 1])

\* the filter loop at position c.idx
EnterFilter(c) ==
    IF c.idx <= Len(c.entries) THEN [c EXCEPT !.pc = "filter"] ELSE AfterFilter(c)

\* the membership test lost: every raw entry is taken as new
IsNew_Always(oldIds, id) == TRUE

\* if (!oldIds.has(entry.id))
IsNew(oldIds, id) == id \notin oldIds

\* filterNoticeInfo's condition for the detail request
NoticeWantsDetail(e, shouldNotify, isInit) ==
    e.event_type = AS_AVAIL /\ e.se_itemUri /\ shouldNotify /\ ~isInit

\* the detail request made for every entry, the user's own events included
CalendarWantsDetail_Always(course, isInit) == TRUE

\* filterAssignmentInfo's condition for the detail request (it is not
\* told whether the pass is a first run)
CalendarWantsDetail(course, isInit) == course # Personal

\* shouldNotify starting out false: a failed detail request silences the item
CalendarShouldNotify_DefaultFalse(fetched, page) == fetched /\ ~hasAttempted(page)

\* filterAssignmentInfo's shouldNotify: true by default, !hasAttempted(page)
\* when the page was fetched
CalendarShouldNotify(fetched, page) == IF fetched THEN ~hasAttempted(page) ELSE TRUE

Rec(id, shouldNotify, detail) == [id |-> id, shouldNotify |-> shouldNotify, detail |-> detail]
Row(r) == [id |-> r.id, shouldNotify |-> r.shouldNotify]

\* the initialization marker record
initRecord == Rec(INIT_ID, FALSE, "none")

\* the check going on to login() although decrypt threw
AfterDecrypt_Ignore(c, dec) == [c EXCEPT !.decryptResult = dec, !.pc = "login"]

\* crypto.decrypt(iaaaUser.password) inside the check's try: when it throws,
\* the catch ends the check (the command answers with the error)
AfterDecrypt(c, dec) ==
    IF dec = "threw"
    THEN [c EXCEPT !.decryptResult = dec, !.pc = "check_done", !.reply = "error"]
    ELSE [c EXCEPT !.decryptResult = dec, !.pc = "login"]

\* ScheduleService.checkSingleUser up to the construction of the client
StartCheckSingleUser(u) ==
    /\ u \in iaaa_user
    /\ \E dec \in {"ok", "threw"} :
         LET config == ConfigOf(u)
         IN  /\ passCount + PassesOf(config) <= MaxPasses
             /\ passCount' = passCount + PassesOf(config)
             /\ bb_watcher_config' = (u :> config) @@ bb_watcher_config
             /\ chk' = [chk EXCEPT !["sched"] =
                          IF ~config.notifyNotice /\ ~config.notifyAssignment
                          THEN [IdleCheck EXCEPT !.pc = "check_done", !.userId = u]
                          ELSE AfterDecrypt([IdleCheck EXCEPT !.userId = u,
                                                              !.bbConfig = config], dec)]
    /\ UNCHANGED <<iaaa_user, iaaa_credential, notice_record, assignment_record, call, delivered>>

\* the blackboard.check command up to the construction of the client
StartCheckCommand(u) ==
    /\ IF u \notin iaaa_user
       THEN /\ chk' = [chk EXCEPT !["manual"] =
                         [IdleCheck EXCEPT !.pc = "check_done", !.userId = u,
                                           !.reply = "not_bound"]]
            /\ UNCHANGED <<bb_watcher_config, passCount>>
       ELSE \E dec \in {"ok", "threw"} :
              LET config == ConfigOf(u)
              IN  /\ passCount + PassesOf(config) <= MaxPasses
                  /\ passCount' = passCount + PassesOf(config)
                  /\ bb_watcher_config' = (u :> config) @@ bb_watcher_config
                  /\ chk' = [chk EXCEPT !["manual"] =
                               AfterDecrypt([IdleCheck EXCEPT !.userId = u,
                                                              !.bbConfig = config], dec)]
    /\ UNCHANGED <<iaaa_user, iaaa_credential, notice_record, assignment_record, call, delivered>>

\* one scheduled check with no other check in flight
CheckSingleUser(u) == NoCheckRunning /\ StartCheckSingleUser(u) /\ UNCHANGED <<sweep, delivered>>

\* one blackboard.check with no other check in flight
CheckCommand(u) == NoCheckRunning /\ StartCheckCommand(u) /\ UNCHANGED <<sweep, delivered>>

\* BlackboardClient.login and the caller's next statement: the cookies of
\* the SSO response are kept on success; the boolean result is not read
Login(p) ==
    /\ chk[p].pc = "login"
    /\ \E outcome \in {"ok", "rejected", "iaaa_fault", "sso_fault"} :
         chk' = [chk EXCEPT ![p] =
                   AfterLogin([@ EXCEPT !.loginResult = outcome,
                                        !.cookies = IF outcome = "ok"
                                                    THEN {"s_session_id"} ELSE {}])]
    /\ UNCHANGED <<iaaa_user, iaaa_credential, bb_watcher_config, notice_record, assignment_record, passCount, call, sweep, delivered>>

\* process() step 1: getNoticeData / getCalendarData (after the calendar
\* pass's configuration test)
Fetch(p) ==
    /\ chk[p].pc = "fetch"
    /\ LET c == chk[p]
       IN  IF c.kind = "calendar" /\ c.bbConfig.calendarAdvanceHours <= 0
           THEN \E ok \in BOOLEAN :
                  LET d == [c EXCEPT !.sent = Append(@, Msg("config", "-", ok))]
                  IN  chk' = [chk EXCEPT ![p] =
                                IF SendThrows(p, ok) THEN Throw(d, "send")
                                ELSE [d EXCEPT !.pc = "pass_done"]]
           ELSE LET d == [c EXCEPT !.dataOps = @ \cup {<<c.kind, Authenticated(c)>>}]
                IN  \/ chk' = [chk EXCEPT ![p] = AfterFetchFailure(d)]
                    \/ \E feed \in Served(c) :
                         chk' = [chk EXCEPT ![p] = [d EXCEPT !.pc = "read", !.entries = feed]]
    /\ UNCHANGED <<iaaa_user, iaaa_credential, bb_watcher_config, notice_record, assignment_record, passCount, call, sweep, delivered>>

\* process() step 2: getNoticeRecords / getAssignmentRecords and isInit
Read(p) ==
    /\ chk[p].pc = "read"
    /\ LET c == chk[p]
           ids == RecordIds(Table(c.kind)[c.userId])
       IN  \/ chk' = [chk EXCEPT ![p] = Throw(c, "read")]
           \/ chk' = [chk EXCEPT ![p] =
                        EnterFilter([c EXCEPT !.oldIds = ids,
                                              !.isInit = INIT_ID \notin ids,
                                              !.idx = 1])]
    /\ UNCHANGED <<iaaa_user, iaaa_credential, bb_watcher_config, notice_record, assignment_record, passCount, call, sweep, delivered>>

\* filterNoticeInfo for the new entry id: the records it can return
filterNoticeInfo(c, id) ==
    LET e == NoticeEntry(id)
        course == removeSuffix(e.courseName)
        shouldNotify == isEventAllowed(c.bbConfig, course, e.event_type)
    IN  IF NoticeWantsDetail(e, shouldNotify, c.isInit)
        THEN {Rec(id, shouldNotify, "ok"), Rec(id, shouldNotify, "failed")}
        ELSE {Rec(id, shouldNotify, "none")}

\* filterAssignmentInfo for the new entry id: the records it can return
filterAssignmentInfo(c, id) ==
    LET e == CalendarEntry(id)
        course == removeSuffix(e.calendarName)
    IN  IF CalendarWantsDetail(course, c.isInit)
        THEN {Rec(id, CalendarShouldNotify(TRUE, page), "ok") : page \in DetailPages}
             \cup {Rec(id, CalendarShouldNotify(FALSE, NoPage), "failed")}
        ELSE {Rec(id, CalendarShouldNotify(FALSE, NoPage), "none")}

\* process() step 3, one iteration of the loop over the raw entries
FilterStep(p) ==
    /\ chk[p].pc = "filter"
    /\ LET c == chk[p]
           id == c.entries[c.idx]
       IN  IF IsNew(c.oldIds, id)
           THEN \E r \in (IF c.kind = "notice" THEN filterNoticeInfo(c, id)
                          ELSE filterAssignmentInfo(c, id)) :
                  chk' = [chk EXCEPT ![p] =
                            EnterFilter([c EXCEPT
                                !.updated = Append(@, r),
                                !.dataOps = IF r.detail = "none" THEN @
                                            ELSE @ \cup {<<"detail", Authenticated(c)>>},
                                !.idx = @ + 1])]
           ELSE chk' = [chk EXCEPT ![p] = EnterFilter([c EXCEPT !.idx = @ + 1])]
    /\ UNCHANGED <<iaaa_user, iaaa_credential, bb_watcher_config, notice_record, assignment_record, passCount, call, sweep, delivered>>

\* process() step 4, first run: the "initialized" message, then the marker
InitSend(p) ==
    /\ chk[p].pc = "init_send"
    /\ \E ok \in BOOLEAN :
         LET c == [chk[p] EXCEPT !.sent = Append(@, Msg("init", "-", ok))]
         IN  /\ chk' = [chk EXCEPT ![p] =
                       IF SendThrows(p, ok) THEN Throw(c, "send")
                       ELSE EnterPersist([c EXCEPT !.updated = Append(@, initRecord)])]
            /\ delivered' = Deliver(delivered, chk[p].userId, chk[p].kind, "init", ok)
    /\ UNCHANGED <<iaaa_user, iaaa_credential, bb_watcher_config, notice_record, assignment_record, passCount, call, sweep>>

\* process() step 4, steady state: one iteration of the notification loop
NotifyStep(p) ==
    /\ chk[p].pc = "notify"
    /\ LET c == chk[p]
           r == c.updated[c.idx]
       IN  IF r.shouldNotify
           THEN \E ok \in BOOLEAN :
                  LET d == [c EXCEPT !.sent = Append(@, Msg("item", r.id, ok))]
                  IN  /\ chk' = [chk EXCEPT ![p] =
                                   IF SendThrows(p, ok) THEN Throw(d, "send")
                                   ELSE EnterNotify([d EXCEPT !.idx = @ + 1])]
                      /\ delivered' = Deliver(delivered, c.userId, c.kind, r.id, ok)
           ELSE /\ chk' = [chk EXCEPT ![p] = EnterNotify([c EXCEPT !.idx = @ + 1])]
                /\ UNCHANGED delivered
    /\ UNCHANGED <<iaaa_user, iaaa_credential, bb_watcher_config, notice_record, assignment_record, passCount, call, sweep>>

\* createNoticeRecords / createAssignmentRecords after a create that threw:
\* the loop is inside the try, so the catch ends it
AfterCreateFailure(c) == [c EXCEPT !.pc = "pass_done"]

\* createNoticeRecords / createAssignmentRecords after a create that succeeded
AfterCreate(c) ==
    IF c.idx < Len(c.updated) THEN [c EXCEPT !.idx = @ + 1] ELSE [c EXCEPT !.pc = "pass_done"]

\* a write that replaces the row of the same id when there is one
create_Upsert(rows, r) ==
    IF \E i \in DOMAIN rows : rows[i].id = r.id
    THEN [i \in DOMAIN rows |-> IF rows[i].id = r.id THEN Row(r) ELSE rows[i]]
    ELSE Append(rows, Row(r))

\* ctx.database.create('notice_record', record): a new row after the others
create(rows, r) == Append(rows, Row(r))

\* rows written without telling the identities apart
OwnerOf_Shared(c) == "u1"

\* the userId createNoticeRecords / createAssignmentRecords put in each row
OwnerOf(c) == c.userId

\* one ctx.database.create of createNoticeRecords / createAssignmentRecords
PersistStep(p) ==
    /\ chk[p].pc = "persist"
    /\ LET c == chk[p]
           r == c.updated[c.idx]
           u == OwnerOf(c)
       IN  \/ /\ chk' = [chk EXCEPT ![p] =
                           AfterCreate([c EXCEPT !.created = Append(@, [id |-> r.id, ok |-> TRUE])])]
              /\ IF c.kind = "notice"
                 THEN /\ notice_record' = [notice_record EXCEPT ![u] = create(@, r)]
                      /\ UNCHANGED assignment_record
                 ELSE /\ assignment_record' = [assignment_record EXCEPT ![u] = create(@, r)]
                      /\ UNCHANGED notice_record
           \/ /\ chk' = [chk EXCEPT ![p] =
                           AfterCreateFailure([c EXCEPT !.created = Append(@, [id |-> r.id, ok |-> FALSE])])]
              /\ UNCHANGED <<notice_record, assignment_record>>
    /\ UNCHANGED <<iaaa_user, iaaa_credential, bb_watcher_config, passCount, call, sweep, delivered>>

\* process()'s catch: one error message; a send that raises leaves process()
Catch(p) ==
    /\ chk[p].pc = "catch"
    /\ \E ok \in BOOLEAN :
         LET c == [chk[p] EXCEPT !.sent = Append(@, Msg("error", "-", ok)),
                                 !.errorMsgs = IF ok THEN @ + 1 ELSE @]
         IN  chk' = [chk EXCEPT ![p] =
                       IF SendThrows(p, ok) THEN [c EXCEPT !.pc = "check_done", !.aborted = TRUE]
                       ELSE [c EXCEPT !.pc = "pass_done"]]
    /\ UNCHANGED <<iaaa_user, iaaa_credential, bb_watcher_config, notice_record, assignment_record, passCount, call, sweep, delivered>>

\* process() returns to the check, which runs the next pass or ends
PassDone(p) ==
    /\ chk[p].pc = "pass_done"
    /\ chk' = [chk EXCEPT ![p] = AfterPass(@)]
    /\ UNCHANGED <<iaaa_user, iaaa_credential, bb_watcher_config, notice_record, assignment_record, passCount, call, sweep, delivered>>

\* checkAllUsers without the pause between two identities
AfterCheck_NoDelay(w) ==
    [w EXCEPT !.pc = "next", !.queue = Tail(@), !.done = @ \cup {Head(w.queue)}]

\* checkAllUsers after await this.checkSingleUser(...): await delay(1000)
AfterCheck(w) == [w EXCEPT !.pc = "delay"]

\* checkSingleUser letting the exception of a failed decryption out: the
\* sweep's own catch would end the loop
AfterSingleUser_Rethrow(w, c) ==
    IF c.decryptResult = "threw" THEN [w EXCEPT !.pc = "idle", !.queue = <<>>] ELSE AfterCheck(w)

\* checkSingleUser has returned to the loop of checkAllUsers: its catch has
\* kept every exception, so the loop goes on whatever happened in the check
AfterSingleUser(w, c) == AfterCheck(w)

\* the check returns; a sweep waiting for it goes on
CheckDone(p) ==
    /\ chk[p].pc = "check_done"
    /\ chk' = [chk EXCEPT ![p] = IdleCheck]
    /\ sweep' = IF p = "sched" /\ sweep.pc = "check" THEN AfterSingleUser(sweep, chk[p]) ELSE sweep
    /\ UNCHANGED <<iaaa_user, iaaa_credential, bb_watcher_config, notice_record, assignment_record, passCount, call,
                   delivered>>

Next ==
    \/ \E u \in Users : CheckSingleUser(u)
    \/ \E u \in Users : CheckCommand(u)
    \/ \E p \in Procs : Login(p)
    \/ \E p \in Procs : Fetch(p)
    \/ \E p \in Procs : Read(p)
    \/ \E p \in Procs : FilterStep(p)
    \/ \E p \in Procs : InitSend(p)
    \/ \E p \in Procs : NotifyStep(p)
    \/ \E p \in Procs : PersistStep(p)
    \/ \E p \in Procs : Catch(p)
    \/ \E p \in Procs : PassDone(p)
    \/ \E p \in Procs : CheckDone(p)

Spec == Init /\ [][Next]_vars

(***************************************************************************)
(* The configuration command and the eligibility evaluator on their own.   *)
(***************************************************************************)
\* upsertBBConfig: the identity's row (created with the defaults when
\* missing) with one field replaced
upsertBBConfig(u, field, value) ==
    bb_watcher_config' = (u :> [ConfigOf(u) EXCEPT ![field] = value]) @@ bb_watcher_config

\* /^[123]+$/.test(events)
ValidEvents(events) == events # <<>> /\ \A i \in DOMAIN events : events[i] \in {"1", "2", "3"}

\* what the user answers the 'events' prompt with
TypedEvents == { <<"1">>, <<"3">>, <<"1","3">>, <<"1","2","3">>, <<"4">> }

\* what the user answers the 'json' prompt with, parsed: course name -> categories
TypedOverrides ==
    { NoOverrides,
      (LinearAlgebra :> <<"1">>),
      (toLowerCase(LinearAlgebra) :> <<"1">>),
      (toLowerCase(LinearAlgebra) :> <<>>),
      (Calculus :> <<"3">>) }

\* blackboard.config.set, option generalAllowedEvents (case 'events')
ConfigSetEvents(u, typed) ==
    /\ NoCheckRunning
    /\ typed \in TypedEvents
    /\ IF ValidEvents(typed)
       THEN upsertBBConfig(u, "generalAllowedEvents", typed)
       ELSE UNCHANGED bb_watcher_config
    /\ call' = NoCall
    /\ UNCHANGED <<iaaa_user, iaaa_credential, notice_record, assignment_record, chk, passCount, sweep, delivered>>

\* blackboard.config.set, option specificCourseEvents (case 'json'): the
\* parsed object is stored as typed, JSON.stringify(JSON.parse(x))
ConfigSetSpecific(u, typed) ==
    /\ NoCheckRunning
    /\ typed \in TypedOverrides
    /\ upsertBBConfig(u, "specificCourseEvents", typed)
    /\ call' = NoCall
    /\ UNCHANGED <<iaaa_user, iaaa_credential, notice_record, assignment_record, chk, passCount, sweep, delivered>>

\* the courses and event codes the evaluator is asked about
AskedCourses == { LinearAlgebra, toLowerCase(LinearAlgebra), Calculus, <<>> }
AskedEvents == { AS_AVAIL, CO_AVAIL, AN_AVAIL, <<>> }

\* one evaluation of NoticeHandler.isEventAllowed under the identity's
\* stored configuration
IsEventAllowedCall(u, course, event) ==
    /\ NoCheckRunning
    /\ course \in AskedCourses /\ event \in AskedEvents
    /\ call' = [done |-> TRUE, course |-> course, event |-> event,
                result |-> isEventAllowed(ConfigOf(u), course, event)]
    /\ UNCHANGED <<iaaa_user, iaaa_credential, bb_watcher_config, notice_record, assignment_record, chk, passCount, sweep, delivered>>

InitElig ==
    /\ call = NoCall
    /\ sweep = IdleSweep
    /\ delivered = NoneDelivered
    /\ iaaa_user = {"u1"}
    /\ iaaa_credential = {StoredRow(u) : u \in {"u1"}}
    /\ bb_watcher_config = ("u1" :> DefaultConfig)
    /\ notice_record = [u \in Users |-> <<>>]
    /\ assignment_record = [u \in Users |-> <<>>]
    /\ chk = [p \in Procs |-> IdleCheck]
    /\ passCount = 0

NextElig ==
    \/ \E typed \in TypedEvents : ConfigSetEvents("u1", typed)
    \/ \E typed \in TypedOverrides : ConfigSetSpecific("u1", typed)
    \/ \E course \in AskedCourses, event \in AskedEvents : IsEventAllowedCall("u1", course, event)

SpecElig == InitElig /\ [][NextElig]_vars

(***************************************************************************)
(* The scheduled sweep (ScheduleService.checkAllUsers) next to the         *)
(* blackboard.check command: the checks interleave at every await.         *)
(***************************************************************************)
\* the orders ctx.database.get('iaaa_user', {}) can return the rows in
SweepOrders(users) ==
    {q \in [1..Cardinality(users) -> users] : \A i, j \in DOMAIN q : q[i] = q[j] => i = j}

\* the configuration of the sweep's identities: notices only
SweepConfig == [DefaultConfig EXCEPT !.notifyAssignment = FALSE]

\* the cron callback: checkAllUsers reads the bound identities
CheckAllUsers ==
    /\ sweep.pc = "idle"
    /\ \E q \in SweepOrders(iaaa_user) :
         sweep' = [pc |-> "next", queue |-> q, done |-> {}, delayed |-> FALSE]
    /\ UNCHANGED <<iaaa_user, iaaa_credential, bb_watcher_config, notice_record, assignment_record, chk, passCount, call,
                   delivered>>

\* the loop's await this.checkSingleUser(iaaaUser.userId)
SweepCheck ==
    /\ sweep.pc = "next"
    /\ sweep.queue # <<>>
    /\ StartCheckSingleUser(Head(sweep.queue))
    /\ sweep' = [sweep EXCEPT !.pc = "check", !.delayed = FALSE]

\* the loop's await delay(1000) has elapsed
SweepDelay ==
    /\ sweep.pc = "delay"
    /\ sweep' = [sweep EXCEPT !.pc = "next", !.queue = Tail(@),
                              !.done = @ \cup {Head(sweep.queue)}, !.delayed = TRUE]
    /\ UNCHANGED <<iaaa_user, iaaa_credential, bb_watcher_config, notice_record, assignment_record, chk, passCount, call,
                   delivered>>

\* the loop is over: checkAllUsers returns
SweepEnd ==
    /\ sweep.pc = "next"
    /\ sweep.queue = <<>>
    /\ sweep' = IdleSweep
    /\ UNCHANGED <<iaaa_user, iaaa_credential, bb_watcher_config, notice_record, assignment_record, chk, passCount, call,
                   delivered>>

\* a user sends blackboard.check while no command of theirs is running
ManualCheck(u) ==
    /\ chk["manual"].pc = "idle"
    /\ StartCheckCommand(u)
    /\ UNCHANGED <<sweep, delivered>>

\* both identities are bound; u1's first notice pass is behind it (over an
\* empty feed), u2's is still to come
InitSweep ==
    /\ call = NoCall
    /\ sweep = IdleSweep
    /\ delivered = [NoneDelivered EXCEPT ![<<"u1", "notice", "init">>] = 1]
    /\ iaaa_user = Users
    /\ iaaa_credential = {StoredRow(u) : u \in Users}
    /\ bb_watcher_config = [u \in Users |-> SweepConfig]
    /\ notice_record = [u \in Users |-> IF u = "u1" THEN <<Row(initRecord)>> ELSE <<>>]
    /\ assignment_record = [u \in Users |-> <<>>]
    /\ chk = [p \in Procs |-> IdleCheck]
    /\ passCount = 0

NextSweep ==
    \/ CheckAllUsers
    \/ SweepCheck
    \/ SweepDelay
    \/ SweepEnd
    \/ \E u \in Users : ManualCheck(u)
    \/ \E p \in Procs : Login(p)
    \/ \E p \in Procs : Fetch(p)
    \/ \E p \in Procs : Read(p)
    \/ \E p \in Procs : FilterStep(p)
    \/ \E p \in Procs : InitSend(p)
    \/ \E p \in Procs : NotifyStep(p)
    \/ \E p \in Procs : PersistStep(p)
    \/ \E p \in Procs : Catch(p)
    \/ \E p \in Procs : PassDone(p)
    \/ \E p \in Procs : CheckDone(p)

SpecSweep == InitSweep /\ [][NextSweep]_vars

(***************************************************************************)
(* Checks of one identity, one feed enabled, from a table that holds the   *)
(* first-run marker or is still empty.                                     *)
(***************************************************************************)
OneFeedConfigs ==
    { [DefaultConfig EXCEPT !.notifyAssignment = FALSE],
      [DefaultConfig EXCEPT !.notifyNotice = FALSE] }

\* the rows of an identity: none, or the marker of its first run
StartRows == { <<>>, <<Row(initRecord)>> }

InitSteady ==
    /\ call = NoCall
    /\ sweep = IdleSweep
    /\ delivered = NoneDelivered
    /\ iaaa_user = {"u1"}
    /\ iaaa_credential = {StoredRow(u) : u \in {"u1"}}
    /\ bb_watcher_config \in [{"u1"} -> OneFeedConfigs]
    /\ \E rows \in StartRows :
         /\ notice_record = [u \in Users |-> IF u = "u1" THEN rows ELSE <<>>]
         /\ assignment_record = [u \in Users |-> IF u = "u1" THEN rows ELSE <<>>]
    /\ chk = [p \in Procs |-> IdleCheck]
    /\ passCount = 0

SpecSteady == InitSteady /\ [][Next]_vars

(***************************************************************************)
(* One sweep on its own, with the progress its awaits give it.             *)
(***************************************************************************)
\* the cron callback, fired while the passes of a whole sweep are left
CronTick ==
    /\ passCount + Cardinality(iaaa_user) * PassesOf(SweepConfig) <= MaxPasses
    /\ CheckAllUsers

\* a step of the sweep or of the check it is waiting for
SweepStep ==
    \/ SweepCheck
    \/ SweepDelay
    \/ SweepEnd
    \/ Login("sched")
    \/ Fetch("sched")
    \/ Read("sched")
    \/ FilterStep("sched")
    \/ InitSend("sched")
    \/ NotifyStep("sched")
    \/ PersistStep("sched")
    \/ Catch("sched")
    \/ PassDone("sched")
    \/ CheckDone("sched")

NextSweepFair ==
    \/ CronTick
    \/ SweepStep

\* every promise checkAllUsers and checkSingleUser await settles (a request
\* is answered or fails, a database call returns or throws, the pause
\* elapses), so the one step the sweep is waiting for is eventually taken
SpecSweepFair == InitSweep /\ [][NextSweepFair]_vars /\ WF_vars(SweepStep)

(***************************************************************************)
(* The calendar feed's window (BlackboardClient.getCalendarData).          *)
(* Timestamps are counted in minutes; an end date the Date constructor     *)
(* cannot read has the timestamp NaN (valid = FALSE).                      *)
(***************************************************************************)
\* one hour (3600000 ms) in the model's unit
HOUR == 60
\* the request's start lies this many hours before the current time
BACK_HOURS == 3

NaN == [valid |-> FALSE, t |-> 0]
Stamp(t) == [valid |-> TRUE, t |-> t]

\* testWithinHours with a strict comparison
testWithinHours_Strict(timeStr, advanceHours, currentTimestamp) ==
    timeStr.valid /\ timeStr.t - currentTimestamp < advanceHours * HOUR

\* testWithinHours, currentTimestamp being its Date.now(); a comparison
\* with NaN is false
testWithinHours(timeStr, advanceHours, currentTimestamp) ==
    timeStr.valid /\ timeStr.t - currentTimestamp <= advanceHours * HOUR

\* the filter getCalendarData applies to response.data (a sequence of end dates)
filteredData(data, advanceHours, currentTimestamp) ==
    SelectSeq(data, LAMBDA endDate : testWithinHours(endDate, advanceHours, currentTimestamp))

\* Date.now() when the request is sent
RequestTime == 1000
\* minutes until the response is filtered
Latencies == {0, 1}
\* calendarAdvanceHours values asked for
AdvanceHours == {1, 48}
\* end dates the server can answer with, relative to the request
EndOffsets == {0 - 181, 0 - 180, 0, 60, 61, 2879, 2880, 2881, 2940}
EndDates == {Stamp(RequestTime + d) : d \in EndOffsets} \cup {NaN}
CalendarResponses == UNION {[1..n -> EndDates] : n \in 0..MaxEntries}

\* one call of getCalendarData(advanceHours)
GetCalendarDataCall ==
    /\ \E advanceHours \in AdvanceHours, latency \in Latencies, data \in CalendarResponses :
         call' = [done |-> TRUE, fn |-> "getCalendarData",
                  advanceHours |-> advanceHours,
                  start |-> RequestTime - BACK_HOURS * HOUR,
                  end |-> RequestTime + advanceHours * HOUR,
                  testTime |-> RequestTime + latency,
                  data |-> data,
                  result |-> filteredData(data, advanceHours, RequestTime + latency)]
    /\ UNCHANGED <<iaaa_user, iaaa_credential, bb_watcher_config, notice_record, assignment_record, chk, passCount, sweep, delivered>>

InitCal ==
    /\ call = NoCall
    /\ sweep = IdleSweep
    /\ delivered = NoneDelivered
    /\ iaaa_user = {"u1"}
    /\ iaaa_credential = {StoredRow(u) : u \in {"u1"}}
    /\ bb_watcher_config = ("u1" :> DefaultConfig)
    /\ notice_record = [u \in Users |-> <<>>]
    /\ assignment_record = [u \in Users |-> <<>>]
    /\ chk = [p \in Procs |-> IdleCheck]
    /\ passCount = 0

NextCal == GetCalendarDataCall

SpecCal == InitCal /\ [][NextCal]_vars

(***************************************************************************)
(* Calls of the credential cipher.                                         *)
(***************************************************************************)
\* one call of encrypt under the key k1
EncryptCall ==
    /\ \E k1 \in EncryptionKeys, text \in Secrets, iv \in IVs :
         call' = [done |-> TRUE, fn |-> "encrypt", k1 |-> k1, k2 |-> k1, text |-> text,
                  encrypted |-> encrypt(k1, text, iv), result |-> encrypt(k1, text, iv)]
    /\ UNCHANGED <<iaaa_user, iaaa_credential, bb_watcher_config, notice_record, assignment_record, chk, passCount, sweep, delivered>>

\* one call of decrypt, under the key k2, on the value encrypt returned
DecryptCall ==
    /\ call.done /\ call.fn = "encrypt" /\ call.encrypted.ok
    /\ \E k2 \in EncryptionKeys :
         \E r \in decrypt(k2, call.encrypted.value) :
           call' = [call EXCEPT !.fn = "decrypt", !.k2 = k2, !.result = r]
    /\ UNCHANGED <<iaaa_user, iaaa_credential, bb_watcher_config, notice_record, assignment_record, chk, passCount, sweep, delivered>>

NextCrypto == EncryptCall \/ DecryptCall

SpecCrypto == InitCal /\ [][NextCrypto]_vars

(***************************************************************************)
(* One BlackboardClient on which login() is called again and again: its    *)
(* cookie map (name -> value) across the calls.                            *)
(***************************************************************************)
\* new Map()
EmptyMap == [n \in {} |-> ""]

\* extractCookies: every name=value pair of the response's set-cookie
\* headers with a non-empty name and value is set in the map
extractCookies(cookies, setCookie) ==
    LET kept == {n \in DOMAIN setCookie : n # "" /\ setCookie[n] # ""}
    IN  [n \in kept \cup DOMAIN cookies |-> IF n \in kept THEN setCookie[n] ELSE cookies[n]]

\* what the two handshake responses can carry in their set-cookie headers
IaaaSetCookies == { EmptyMap, ("JSESSIONID" :> "j1") }
SsoSetCookies ==
    { EmptyMap, ("s_session_id" :> "s1"), ("s_session_id" :> "s2"), ("s_session_id" :> ""),
      ("s_session_id" :> "s1") @@ ("web_client_cache_guid" :> "g1") }

\* the steps login() can end at
LoginOutcomes == {"ok", "rejected", "iaaa_fault", "sso_fault"}

\* login() keeping the cookies of the identity provider's response as well
login_ExtractEach(cookies, outcome, iaaaSetCookie, ssoSetCookie) ==
    IF outcome = "iaaa_fault" THEN [result |-> FALSE, cookies |-> cookies]
    ELSE IF outcome = "ok"
    THEN [result |-> TRUE,
          cookies |-> extractCookies(extractCookies(cookies, iaaaSetCookie), ssoSetCookie)]
    ELSE [result |-> FALSE, cookies |-> extractCookies(cookies, iaaaSetCookie)]

\* BlackboardClient.login: extractCookies runs once, on the SSO response,
\* after both requests returned; every failure is caught and gives false
login(cookies, outcome, iaaaSetCookie, ssoSetCookie) ==
    IF outcome = "ok"
    THEN [result |-> TRUE, cookies |-> extractCookies(cookies, ssoSetCookie)]
    ELSE [result |-> FALSE, cookies |-> cookies]

\* the Cookie header of login()'s two requests: they are sent without one
HandshakeCookieHeader == EmptyMap

\* the client's cookie map before the next call
ClientCookies == IF call.done /\ call.fn = "login" THEN call.cookies ELSE EmptyMap

\* one call of login() on the client
LoginCall ==
    /\ \E outcome \in LoginOutcomes, iaaaSetCookie \in IaaaSetCookies, ssoSetCookie \in SsoSetCookies :
         LET r == login(ClientCookies, outcome, iaaaSetCookie, ssoSetCookie)
         IN  call' = [done |-> TRUE, fn |-> "login", before |-> ClientCookies,
                      attached |-> HandshakeCookieHeader,
                      outcome |-> outcome, iaaa |-> iaaaSetCookie, sso |-> ssoSetCookie,
                      result |-> r.result, cookies |-> r.cookies]
    /\ UNCHANGED <<iaaa_user, iaaa_credential, bb_watcher_config, notice_record, assignment_record, chk, passCount, sweep, delivered>>

NextClient == LoginCall

SpecClient == InitCal /\ [][NextClient]_vars

(***************************************************************************)
(* The attempted-page test (hasAttempted) on its own.                      *)
(***************************************************************************)
\* the characters of a title's content: the marker, another letter, white
\* space and the tag delimiters
TitleChars == {MARKER, "S", " ", "\n", "<", ">"}
\* the upload pages the test is applied to
TitlePages ==
    {NoPage} \cup {[hasTitle |-> TRUE, title |-> t] :
                     t \in UNION {[1..n -> TitleChars] : n \in 0..MaxTitle}}

\* one call of hasAttempted(assignmentHtml)
HasAttemptedCall ==
    /\ \E page \in TitlePages :
         call' = [done |-> TRUE, fn |-> "hasAttempted", page |-> page,
                  result |-> hasAttempted(page)]
    /\ UNCHANGED <<iaaa_user, iaaa_credential, bb_watcher_config, notice_record, assignment_record, chk, passCount, sweep, delivered>>

NextTitle == HasAttemptedCall

SpecTitle == InitCal /\ [][NextTitle]_vars

(***************************************************************************)
(* The notice feed request (BlackboardClient.getNoticeData), step by step. *)
(***************************************************************************)
\* the cookie map of the client when getNoticeData is called
SessionCookies == { EmptyMap, ("s_session_id" :> "s1") }
\* set-cookie headers of the viewer page and of the stream response
ViewerSetCookies == { EmptyMap, ("JSESSIONID" :> "j1"), ("JSESSIONID" :> "j2") }
StreamSetCookies == { EmptyMap, ("JSESSIONID" :> "j3") }
\* response.data of the stream request: number of stream entries
StreamData == 0..MaxEntries

Request(name, cookies) == [req |-> name, cookie |-> cookies]

\* the call has ended
FeedOver == call.done /\ call.fn = "getNoticeData" /\ call.pc \in {"returned", "threw"}

\* getNoticeData is called: the GET of the streamViewer page goes out with
\* the client's cookies
GetNoticeDataBegin ==
    /\ ~call.done \/ FeedOver
    /\ \E cookies \in (IF FeedOver THEN {call.cookies} ELSE SessionCookies) :
         call' = [done |-> TRUE, fn |-> "getNoticeData", pc |-> "view",
                  cookies |-> cookies, requests |-> <<Request("view", cookies)>>,
                  viewed |-> "none", delayed |-> FALSE, result |-> 0]
    /\ UNCHANGED <<iaaa_user, iaaa_credential, bb_watcher_config, notice_record, assignment_record, chk, passCount,
                   sweep, delivered>>

\* the stream request sent right after the viewer page, with no pause
AfterView_NoDelay(c, setCookie) ==
    LET cookies == extractCookies(c.cookies, setCookie)
    IN  [c EXCEPT !.viewed = "ok", !.cookies = cookies, !.pc = "load",
                  !.requests = Append(@, Request("load", cookies))]

\* the viewer page returned: extractCookies, then await delay(3000)
AfterView(c, setCookie) ==
    [c EXCEPT !.viewed = "ok", !.cookies = extractCookies(@, setCookie), !.pc = "delay"]

\* the GET of the viewer page returns or fails; a failure goes to the catch,
\* which rethrows
ViewResponse ==
    /\ call.done /\ call.fn = "getNoticeData" /\ call.pc = "view"
    /\ \/ call' = [call EXCEPT !.viewed = "failed", !.pc = "threw"]
       \/ \E setCookie \in ViewerSetCookies : call' = AfterView(call, setCookie)
    /\ UNCHANGED <<iaaa_user, iaaa_credential, bb_watcher_config, notice_record, assignment_record, chk, passCount,
                   sweep, delivered>>

\* delay(3000) has elapsed: the POST of loadStream goes out
DelayElapsed ==
    /\ call.done /\ call.fn = "getNoticeData" /\ call.pc = "delay"
    /\ call' = [call EXCEPT !.delayed = TRUE, !.pc = "load",
                            !.requests = Append(@, Request("load", call.cookies))]
    /\ UNCHANGED <<iaaa_user, iaaa_credential, bb_watcher_config, notice_record, assignment_record, chk, passCount,
                   sweep, delivered>>

\* the POST returns (extractCookies, return response.data) or fails
LoadResponse ==
    /\ call.done /\ call.fn = "getNoticeData" /\ call.pc = "load"
    /\ \/ call' = [call EXCEPT !.pc = "threw"]
       \/ \E setCookie \in StreamSetCookies, data \in StreamData :
            call' = [call EXCEPT !.cookies = extractCookies(@, setCookie),
                                 !.pc = "returned", !.result = data]
    /\ UNCHANGED <<iaaa_user, iaaa_credential, bb_watcher_config, notice_record, assignment_record, chk, passCount,
                   sweep, delivered>>

NextFeed == GetNoticeDataBegin \/ ViewResponse \/ DelayElapsed \/ LoadResponse

SpecFeed == InitCal /\ [][NextFeed]_vars

(***************************************************************************)
(* blackboard.config.set, option calendarAdvanceHours (case 'number'),     *)
(* and the calendar pass's use of the stored value.                        *)
(***************************************************************************)
\* the accepted range of calendarAdvanceHours
MIN_HOURS == 3
MAX_HOURS == 48

DIGITS == <<"0", "1", "2", "3", "4", "5", "6", "7", "8", "9">>
IsDigit(c) == \E i \in DOMAIN DIGITS : DIGITS[i] = c
DigitValue(c) == (CHOOSE i \in DOMAIN DIGITS : DIGITS[i] = c) - 1

\* the value of the longest prefix of digits of s, after the digits acc
RECURSIVE digitsPrefix(_, _)
digitsPrefix(s, acc) ==
    IF s # <<>> /\ IsDigit(Head(s)) THEN digitsPrefix(Tail(s), 10 * acc + DigitValue(Head(s)))
    ELSE acc

NotANumber == [nan |-> TRUE, n |-> 0]
Number(n) == [nan |-> FALSE, n |-> n]

\* parseInt: leading white space skipped, an optional sign, then the longest
\* prefix of digits; NaN when there is no digit; what follows is ignored
parseInt(text) ==
    LET s == trimStart(text)
        signed == s # <<>> /\ Head(s) \in {"-", "+"}
        body == IF signed THEN Tail(s) ELSE s
    IN  IF body = <<>> \/ ~IsDigit(Head(body)) THEN NotANumber
        ELSE IF signed /\ Head(s) = "-" THEN Number(0 - digitsPrefix(body, 0))
        ELSE Number(digitsPrefix(body, 0))

\* if (isNaN(num) || num < 3 || num > 48) return ...
Accepted(num) == ~num.nan /\ num.n >= MIN_HOURS /\ num.n <= MAX_HOURS

QUIT == <<"q", "u", "i", "t">>

\* what the user answers the 'number' prompt with (<<>>: no answer in time)
TypedNumbers ==
    { <<>>, QUIT, <<"2">>, <<"3">>, <<" ", "7">>, <<"4", "8">>, <<"4", "9">>, <<"0">>,
      <<"-", "5">>, <<"a">>, <<"1", "2", "a">>, <<"4", ".", "7">>, <<"1", "0">>, <<"3", "0">>,
      <<"1", "0", "0">> }

\* blackboard.config.set, option calendarAdvanceHours
ConfigSetNumber(u, typed) ==
    /\ typed \in TypedNumbers
    /\ LET num == parseInt(trim(typed))
           quits == typed = <<>> \/ toLowerCase(typed) = QUIT
       IN  /\ IF ~quits /\ Accepted(num)
              THEN upsertBBConfig(u, "calendarAdvanceHours", num.n)
              ELSE UNCHANGED bb_watcher_config
           /\ call' = [done |-> TRUE, fn |-> "config.set", typed |-> typed,
                       before |-> ConfigOf(u).calendarAdvanceHours,
                       stored |-> ~quits /\ Accepted(num)]
    /\ UNCHANGED <<iaaa_user, iaaa_credential, notice_record, assignment_record, chk, passCount, sweep, delivered>>

\* CalendarHandler.process steps 1-2: the configuration test and, when it
\* passes, the feed request with the stored value
CalendarQuery(u) ==
    /\ LET hours == ConfigOf(u).calendarAdvanceHours
       IN  call' = [done |-> TRUE, fn |-> "calendar.process", hours |-> hours,
                    queried |-> ~(hours <= 0)]
    /\ UNCHANGED <<iaaa_user, iaaa_credential, bb_watcher_config, notice_record, assignment_record, chk, passCount,
                   sweep, delivered>>

NextNumber ==
    \/ \E typed \in TypedNumbers : ConfigSetNumber("u1", typed)
    \/ CalendarQuery("u1")

SpecNumber == InitElig /\ [][NextNumber]_vars

(***************************************************************************)
(* The assignment instructions (parseInstruction) on their own.            *)
(***************************************************************************)
\* the most links one block of an upload page holds
MaxLinks == 3
\* the <a> elements a block holds, each given by what stands between its
\* opening and closing tag: a file name, a file name in white space, and an
\* image with no text
LinkContents == { <<"f">>, <<" ", "g", " ">>, <<"<", "i", ">">> }
LinkLists == UNION {[1..n -> LinkContents] : n \in 0..MaxLinks}
\* the content of the vtbegenerated div
Requirement == <<" ", "d", "o">>

\* a block of the page: absent, or present with its links
Blocks == {[present |-> FALSE, links |-> <<>>]} \cup
          {[present |-> TRUE, links |-> l] : l \in LinkLists}

\* the upload pages: a title, the vtbegenerated div or none, the
\* assignmentInfo div or none, the instructions list element or none
InstructionPages ==
    { [hasTitle |-> TRUE, title |-> t, hasGenerated |-> g,
       hasAssignmentInfo |-> info.present, assignmentInfo |-> info.links,
       hasInstructions |-> ins.present, instructions |-> ins.links] :
        t \in {ReTitle, FirstTitle}, g \in BOOLEAN, info \in Blocks, ins \in Blocks }

\* links.forEach((link, index) => ...): the line of every link whose text,
\* its tags removed and trimmed, is not empty, numbered index + 1
RECURSIVE attachmentLines(_, _)
attachmentLines(links, index) ==
    IF index >= Len(links) THEN <<>>
    ELSE LET linkText == trim(stripTags(links[index + 1]))
         IN  (IF linkText # <<>> THEN <<[n |-> index + 1, label |-> linkText]>> ELSE <<>>)
               \o attachmentLines(links, index + 1)

\* parseInstruction: the text of the vtbegenerated div, then the attachment
\* lines of the assignmentInfo div if the page was attempted and of the
\* instructions list element otherwise; the result is given as the leading
\* text and the lines appended to it
parseInstruction(assignmentHtml) ==
    LET text == IF assignmentHtml.hasGenerated THEN trim(stripTags(Requirement)) ELSE <<>>
        isSubmitted == hasAttempted(assignmentHtml)
        links == IF isSubmitted
                 THEN (IF assignmentHtml.hasAssignmentInfo THEN assignmentHtml.assignmentInfo ELSE <<>>)
                 ELSE (IF assignmentHtml.hasInstructions THEN assignmentHtml.instructions ELSE <<>>)
    IN  [text |-> text, attachments |-> attachmentLines(links, 0)]

\* the call of parseInstruction(assignmentHtml) on one page
ParseInstructionCall ==
    /\ ~call.done
    /\ \E page \in InstructionPages :
         call' = [done |-> TRUE, fn |-> "parseInstruction", page |-> page,
                  result |-> parseInstruction(page)]
    /\ UNCHANGED <<iaaa_user, iaaa_credential, bb_watcher_config, notice_record, assignment_record, chk, passCount, sweep, delivered>>

NextInstruction == ParseInstructionCall

SpecInstruction == InitCal /\ [][NextInstruction]_vars

(***************************************************************************)
(* filterAssignmentInfo on one new calendar entry.                         *)
(***************************************************************************)
\* what getAssignmentFromCalendar can do: return an upload page or throw
DetailOutcomes ==
    {[fetched |-> TRUE, page |-> page] : page \in TitlePages \cup DetailPages}
      \cup {[fetched |-> FALSE, page |-> NoPage]}

\* the call of filterAssignmentInfo(entry): the detail requests it makes,
\* what the request gave, and the record's shouldNotify
FilterAssignmentCall ==
    /\ ~call.done
    /\ \E entry \in CalendarCatalogue :
         LET course == removeSuffix(entry.calendarName)
         IN  IF CalendarWantsDetail(course, FALSE)
             THEN \E outcome \in DetailOutcomes :
                    call' = [done |-> TRUE, fn |-> "filterAssignmentInfo", entry |-> entry,
                             requests |-> 1, outcome |-> outcome,
                             shouldNotify |-> CalendarShouldNotify(outcome.fetched, outcome.page)]
             ELSE call' = [done |-> TRUE, fn |-> "filterAssignmentInfo", entry |-> entry,
                           requests |-> 0, outcome |-> [fetched |-> FALSE, page |-> NoPage],
                           shouldNotify |-> CalendarShouldNotify(FALSE, NoPage)]
    /\ UNCHANGED <<iaaa_user, iaaa_credential, bb_watcher_config, notice_record, assignment_record, chk, passCount, sweep, delivered>>

NextAssignment == FilterAssignmentCall

SpecAssignment == InitCal /\ [][NextAssignment]_vars

(***************************************************************************)
(* The iaaa.bind command and the table iaaa_user.                          *)
(***************************************************************************)
\* the operator's configured key
ConfiguredKey == Key32
\* what a user can type for <username> and <password>; <<>> is a missing
\* argument
TypedUsernames == { <<>>, <<"s", "1">>, <<"s", "2">> }
TypedPasswords == { <<>>, <<"p">>, <<"q">> }

\* rows written with no key: a second row for the same userId
upsert_Insert(rows, row) == rows \cup {row}

\* ctx.database.upsert('iaaa_user', [row], ['userId']): the row with this
\* userId is replaced, or the row is added when there is none
upsert(rows, row) == {r \in rows : r.userId # row.userId} \cup {row}

\* upsertIAAAUser: both branches upsert on userId (they differ in createdAt)
upsertIAAAUser(rows, userId, username, password) ==
    upsert(rows, [userId |-> userId, username |-> username, password |-> password])

\* the iaaa.bind command of user u, from its arguments to its reply
Bind(u) ==
    \E username \in TypedUsernames, password \in TypedPasswords, outcome \in LoginOutcomes,
       iv \in IVs, dbOk \in BOOLEAN :
      LET asked == [done |-> TRUE, fn |-> "iaaa.bind", userId |-> u, username |-> username,
                    password |-> password, outcome |-> outcome, before |-> iaaa_credential]
          success == login(EmptyMap, outcome, EmptyMap, ("s_session_id" :> "s1")).result
          sealed == encrypt(ConfiguredKey, password, iv)
      IN  IF username = <<>> \/ password = <<>>
          THEN /\ call' = [asked EXCEPT !.outcome = "none"] @@ [reply |-> "usage"]
               /\ UNCHANGED <<iaaa_user, iaaa_credential>>
          ELSE IF ~success
          THEN /\ call' = asked @@ [reply |-> "login_failed"]
               /\ UNCHANGED <<iaaa_user, iaaa_credential>>
          ELSE IF ~sealed.ok \/ ~dbOk
          THEN /\ call' = asked @@ [reply |-> "threw"]
               /\ UNCHANGED <<iaaa_user, iaaa_credential>>
          ELSE /\ call' = asked @@ [reply |-> "bound"]
               /\ iaaa_credential' = upsertIAAAUser(iaaa_credential, u, username, sealed.value)
               /\ iaaa_user' = iaaa_user \cup {u}

BindCommand ==
    /\ \E u \in Users : Bind(u)
    /\ UNCHANGED <<bb_watcher_config, notice_record, assignment_record, chk, passCount, sweep, delivered>>

\* the table iaaa_user is empty when the plugin is first installed
InitBind ==
    /\ call = NoCall
    /\ sweep = IdleSweep
    /\ delivered = NoneDelivered
    /\ iaaa_user = {}
    /\ iaaa_credential = {}
    /\ bb_watcher_config = ("u1" :> DefaultConfig)
    /\ notice_record = [u \in Users |-> <<>>]
    /\ assignment_record = [u \in Users |-> <<>>]
    /\ chk = [p \in Procs |-> IdleCheck]
    /\ passCount = 0

NextBind == BindCommand

SpecBind == InitBind /\ [][NextBind]_vars

(***************************************************************************)
(* Properties.                                                             *)
(***************************************************************************)
\* process() has returned or an exception has left it
PassOver(c) == c.pc = "pass_done" \/ (c.pc = "check_done" /\ c.aborted)

UpdatedIds(c) == {c.updated[i].id : i \in DOMAIN c.updated}
SentIds(c, type) == {c.sent[i].id : i \in {j \in DOMAIN c.sent : c.sent[j].type = type}}
CountSent(c, type) == Cardinality({j \in DOMAIN c.sent : c.sent[j].type = type})
CreateTriedIds(c) == {c.created[i].id : i \in DOMAIN c.created}
CreatedIds(c) == {c.created[i].id : i \in {j \in DOMAIN c.created : c.created[j].ok}}

NoDuplicateIds(rows) == \A i, j \in DOMAIN rows : rows[i].id = rows[j].id => i = j
SentinelKept(rows, rowsNext) == INIT_ID \in RecordIds(rows) => INIT_ID \in RecordIds(rowsNext)

\* C1: no remote id appears in more than one persisted record of the same
\* identity and feed kind, and a '%init%' record, once present, stays
\* present (exactly once).
C1_RecordIdsUnique ==
    /\ [](\A u \in Users : NoDuplicateIds(notice_record[u]) /\ NoDuplicateIds(assignment_record[u]))
    /\ [][\A u \in Users : /\ SentinelKept(notice_record[u], notice_record'[u])
                           /\ SentinelKept(assignment_record[u], assignment_record'[u])]_vars

\* the pass has read the record table (getNoticeRecords / getAssignmentRecords returned)
HasRead(c) ==
    \/ c.pc \in {"filter", "init_send", "notify", "persist"}
    \/ c.pc = "catch" /\ c.error = "send"
    \/ PassOver(c) /\ c.error \in {"none", "send"} /\ ~(c.kind = "calendar" /\ c.bbConfig.calendarAdvanceHours <= 0)

\* C2: a pass that starts with the sentinel absent sends exactly one
\* 'initialized' message and no per-item notification, whatever the feed
\* returned, for both feed kinds.
C2_FirstRunOneInitMessage ==
    \A p \in Procs :
      LET c == chk[p]
      IN  /\ (c.kind # "none" /\ HasRead(c)) => (c.isInit <=> INIT_ID \notin RecordIds(c.before))
          /\ c.isInit => CountSent(c, "item") = 0 /\ CountSent(c, "init") <= 1
          /\ (c.isInit /\ PassOver(c)) => CountSent(c, "init") = 1

\* a first-run notice pass over two eligible raw entries has ended: one
\* delivered 'initialized' message and nothing else sent
C2_Witness ==
    \E p \in Procs :
      LET c == chk[p]
      IN  /\ PassOver(c) /\ c.isInit /\ c.kind = "notice"
          /\ Cardinality({i \in DOMAIN c.updated : c.updated[i].shouldNotify}) = 2
          /\ c.sent = <<Msg("init", "-", TRUE)>>

\* C3: a raw entry whose id is in the identity's records when the pass
\* starts is not normalized (so no detail request is made for it), not
\* notified and not appended by that pass.
C3_PersistedIdsSkipped ==
    \A p \in Procs :
      LET c == chk[p]
      IN  c.kind # "none" =>
            /\ HasRead(c) => c.oldIds = RecordIds(c.before)
            /\ \A id \in RecordIds(c.before) :
                 /\ id \notin UpdatedIds(c)
                 /\ id \notin SentIds(c, "item")
                 /\ id \notin CreateTriedIds(c)

\* a steady-state pass has ended whose feed held an id already in the
\* records next to a new one
C3_Witness ==
    \E p \in Procs :
      LET c == chk[p]
      IN  /\ PassOver(c) /\ ~c.isInit /\ c.error = "none"
          /\ \E i \in DOMAIN c.entries : c.entries[i] \in RecordIds(c.before) \ {INIT_ID}
          /\ c.updated # <<>>
          /\ c.created # <<>>

\* C4: every record of a batch is attempted on its own: a failed create
\* does not stop the creates after it.
C4_EachRecordAttempted ==
    \A p \in Procs :
      LET c == chk[p]
      IN  (c.pc = "pass_done" /\ c.created # <<>>) => Len(c.created) = Len(c.updated)

\* C5: feed and detail requests are only issued by a session whose login
\* succeeded; a failed login ends the check without any data request.
C5_DataOpsNeedLogin ==
    \A p \in Procs :
      LET c == chk[p]
      IN  c.dataOps # {} => (c.loginResult = "ok" /\ \A op \in c.dataOps : op[2])

\* C6: a failed delivery of one item's notification does not abort the
\* pass: the other eligible new items are still sent and the batch is
\* still persisted.
C6_DeliveryFailureNotFatal ==
    \A p \in Procs :
      LET c == chk[p]
      IN  (PassOver(c) /\ \E i \in DOMAIN c.sent : c.sent[i].type = "item" /\ ~c.sent[i].ok) =>
            /\ \A i \in DOMAIN c.updated :
                 c.updated[i].shouldNotify => c.updated[i].id \in SentIds(c, "item")
            /\ \/ Len(c.created) = Len(c.updated)
               \/ \E j \in DOMAIN c.created : ~c.created[j].ok

\* C7: a failed detail request for one new item leaves that item recorded
\* and eligible, and leaves the other new items of the pass normalized,
\* notified if eligible and persisted.
C7_EnrichmentFailureIsolated ==
    \A p \in Procs :
      LET c == chk[p]
          new == {c.entries[i] : i \in DOMAIN c.entries} \ c.oldIds
      IN  /\ \A i \in DOMAIN c.updated : c.updated[i].detail = "failed" => c.updated[i].shouldNotify
          /\ (c.pc \in {"init_send", "notify", "persist"} \/ (PassOver(c) /\ c.error = "none"))
               => new \subseteq UpdatedIds(c)
          /\ ( /\ PassOver(c) /\ c.error = "none"
               /\ \E i \in DOMAIN c.updated : c.updated[i].detail = "failed"
               /\ \A j \in DOMAIN c.created : c.created[j].ok )
               => /\ UpdatedIds(c) \subseteq CreatedIds(c)
                  /\ UpdatedIds(c) \subseteq RecordIds(Table(c.kind)[c.userId])
                  /\ ~c.isInit => \A i \in DOMAIN c.updated :
                                    c.updated[i].shouldNotify => c.updated[i].id \in SentIds(c, "item")

\* a steady-state pass has ended in which the first new item's detail
\* request failed: both new items were sent and created
C7_Witness ==
    \E p \in Procs :
      LET c == chk[p]
      IN  /\ PassOver(c) /\ ~c.isInit /\ c.error = "none"
          /\ Len(c.updated) = 2
          /\ c.updated[1].detail = "failed"
          /\ c.updated[2].id # c.updated[1].id
          /\ SentIds(c, "item") = UpdatedIds(c)
          /\ CreatedIds(c) = UpdatedIds(c)

\* the coarse category of an event code
CategoryOf(event) ==
    IF startsWith(event, <<"A","S">>) THEN "1"
    ELSE IF startsWith(event, <<"C","O">>) THEN "2"
    ELSE "3"

\* C8: with the override "Linear Algebra" -> Assignment and the global
\* setting Assignment + Announcement, an item of that course (in any
\* letter case) is eligible exactly when it is an Assignment item, and an
\* item of any other course exactly when its category is in the global set.
C8_OverrideExample ==
    LET config == ConfigOf("u1")
    IN  ( /\ call.done
          /\ config.specificCourseEvents = (LinearAlgebra :> <<"1">>)
          /\ config.generalAllowedEvents = <<"1","3">> )
          => IF toLowerCase(call.course) = toLowerCase(LinearAlgebra)
             THEN call.result = (CategoryOf(call.event) = "1")
             ELSE call.result = includes(config.generalAllowedEvents, CategoryOf(call.event))

\* C9: a failed feed fetch is fatal to the pass: nothing is normalized,
\* no 'initialized' message and no notification is sent, no create is
\* attempted and the identity's rows are those the pass started with.
C9_FeedFailureIsFatal ==
    \A p \in Procs :
      LET c == chk[p]
      IN  c.error = "feed" =>
            /\ c.pc \in {"catch", "pass_done", "check_done"}
            /\ c.updated = <<>>
            /\ c.created = <<>>
            /\ CountSent(c, "init") = 0
            /\ CountSent(c, "item") = 0
            /\ Table(c.kind)[c.userId] = c.before

\* a pass over a non-empty record table has ended on a failed feed fetch
\* with only the error message sent
C9_Witness ==
    \E p \in Procs :
      LET c == chk[p]
      IN  /\ PassOver(c) /\ c.error = "feed"
          /\ c.before # <<>>
          /\ Table(c.kind)[c.userId] = c.before
          /\ Len(c.sent) = 1 /\ c.sent[1].type = "error"

\* C10: a first-run pass makes no detail request, for the notice feed and
\* the calendar feed alike.
C10_NoDetailOnFirstRun ==
    \A p \in Procs :
      LET c == chk[p]
      IN  c.isInit => \A i \in DOMAIN c.updated : c.updated[i].detail = "none"

\* number of item messages / notifiable new records of one id in a pass
ItemSends(c, id) == Cardinality({j \in DOMAIN c.sent : c.sent[j].type = "item" /\ c.sent[j].id = id})
Notifiable(c, id) == Cardinality({i \in DOMAIN c.updated : c.updated[i].id = id /\ c.updated[i].shouldNotify})

\* C11: when a steady-state pass that fetched its feed and read its records
\* is over, each new item with shouldNotify = true got exactly one message,
\* each new item with shouldNotify = false got none, and all new items are
\* in the identity's records unless a create failed.
C11_SteadyStateDelivery ==
    \A p \in Procs :
      LET c == chk[p]
      IN  (c.kind # "none" /\ PassOver(c) /\ HasRead(c) /\ ~c.isInit) =>
            /\ \A id \in UpdatedIds(c) : ItemSends(c, id) = Notifiable(c, id)
            /\ (\A j \in DOMAIN c.created : c.created[j].ok)
                 => UpdatedIds(c) \subseteq RecordIds(Table(c.kind)[c.userId])

\* two checks of one identity are running passes of the same kind
Overlap(p, q) ==
    /\ p # q
    /\ chk[p].pc # "idle" /\ chk[q].pc # "idle"
    /\ chk[p].userId = chk[q].userId

\* C12: no two checks are in flight for the same identity, so no two
\* passes both notify and append the same new item.
C12_OneCheckPerIdentity ==
    \A p, q \in Procs :
      /\ ~Overlap(p, q)
      /\ (p # q /\ chk[p].userId = chk[q].userId /\ chk[p].kind = chk[q].kind) =>
           SentIds(chk[p], "item") \cap SentIds(chk[q], "item")
             \cap CreatedIds(chk[p]) \cap CreatedIds(chk[q]) = {}

\* C13: within a sweep the check of an identity starts only when no
\* scheduled check is in flight and, unless it is the sweep's first, after
\* the pause that follows the previous identity's check.
C13_SweepOneAtATime ==
    /\ [](chk["sched"].pc # "idle" => sweep.pc = "check")
    /\ [][(chk["sched"].pc = "idle" /\ chk'["sched"].pc # "idle")
            => /\ sweep.pc = "next"
               /\ sweep.done = {} \/ sweep.delayed]_vars

\* the sweep has checked one identity, paused, and is checking the next
C13_Witness ==
    /\ sweep.pc = "check"
    /\ sweep.done # {}
    /\ sweep.delayed = FALSE
    /\ chk["sched"].pc = "fetch"
    /\ chk["sched"].userId \notin sweep.done

\* the last evaluation was one of getCalendarData
CalDone == call.done /\ call.fn = "getCalendarData"
Elems(seq) == {seq[i] : i \in DOMAIN seq}

\* C14: every entry getCalendarData returns ends inside the requested
\* window, from 3 hours before the request to advanceHours after it,
\* whatever the server returned.
C14_ReturnedInsideWindow ==
    CalDone => \A endDate \in Elems(call.result) :
                 /\ endDate.valid
                 /\ call.start <= endDate.t
                 /\ endDate.t <= call.end + (call.testTime - RequestTime)

\* C15: an entry is kept exactly when its end time minus the current time
\* is at most advanceHours hours; with 48 hours, an entry ending 49 hours
\* out is dropped and one ending 47 h 59 min out is kept.
C15_KeptIffWithinHours ==
    CalDone =>
      /\ \A endDate \in Elems(call.data) :
           endDate \in Elems(call.result)
             <=> (endDate.valid /\ endDate.t - call.testTime <= call.advanceHours * HOUR)
      /\ call.advanceHours = 48 =>
           /\ Stamp(call.testTime + 49 * HOUR) \notin Elems(call.result)
           /\ Stamp(call.testTime + 48 * HOUR - 1) \in Elems(call.data)
                => Stamp(call.testTime + 48 * HOUR - 1) \in Elems(call.result)

\* with 48 hours, the server returned an entry 49 hours out and one
\* 47 h 59 min out, and only the second was kept
C15_Witness ==
    /\ CalDone
    /\ call.advanceHours = 48
    /\ call.data = <<Stamp(call.testTime + 49 * HOUR), Stamp(call.testTime + 48 * HOUR - 1)>>
    /\ call.result = <<Stamp(call.testTime + 48 * HOUR - 1)>>

\* the last evaluation was decrypt(encrypt(text, k1), k2)
DecryptDone == call.done /\ call.fn = "decrypt"

\* C16: decrypt under a key that is a different string from the one the
\* value was encrypted under fails and returns no plaintext.
C16_OtherKeyFails ==
    (DecryptDone /\ call.k1 # call.k2) => ~call.result.ok

LoginDone == call.done /\ call.fn = "login"

\* C18: a login that fails at any step (rejection by the identity
\* provider, fault on its request, fault on the SSO request) returns false
\* and leaves the client's cookie map exactly as it was before the call.
C18_FailedLoginKeepsState ==
    (LoginDone /\ call.outcome # "ok") => (~call.result /\ call.cookies = call.before)

\* a login on a client that already held cookies failed at the SSO request,
\* after the identity provider had answered with a cookie of its own
C18_Witness ==
    /\ LoginDone
    /\ call.outcome = "sso_fault"
    /\ call.iaaa # EmptyMap
    /\ "s_session_id" \in DOMAIN call.before
    /\ call.cookies = call.before

\* position i of the title's content lies inside a tag: some "<" at or
\* before it is closed by a ">" at or after it
InTag(title, i) ==
    \E j \in 1..i : /\ title[j] = "<"
                    /\ \A m \in j..(i-1) : title[m] # ">"
                    /\ \E k \in i..Len(title) : k > j /\ title[k] = ">"

\* the first character of the title's text that is not white space is the marker
FirstTextCharIsMarker(title) ==
    \E i \in DOMAIN title :
      /\ ~InTag(title, i) /\ title[i] = MARKER
      /\ \A j \in 1..(i-1) : InTag(title, j) \/ title[j] \in WHITESPACE

\* C19: the attempted-page test is true exactly when the page has a title
\* element whose trimmed text is non-empty and begins with the marker; it is
\* false for a title without the marker, an empty title and a page with no
\* title element.
C19_AttemptedIffMarkerTitle ==
    (call.done /\ call.fn = "hasAttempted") =>
      call.result = (call.page.hasTitle /\ FirstTextCharIsMarker(call.page.title))

\* a title whose text starts with the marker after leading white space
C19_Witness ==
    /\ call.done /\ call.fn = "hasAttempted"
    /\ call.page = [hasTitle |-> TRUE, title |-> <<"\n", " ", MARKER>>]
    /\ call.result = TRUE

\* the rows a are the first rows of b, unchanged
IsPrefix(a, b) == Len(a) <= Len(b) /\ SubSeq(b, 1, Len(a)) = a

\* C20: no step updates or deletes a persisted record: each identity's
\* rows of each feed kind only grow, and every row keeps its fields.
C20_RecordsAppendOnly ==
    [][\A u \in Users : /\ IsPrefix(notice_record[u], notice_record'[u])
                        /\ IsPrefix(assignment_record[u], assignment_record'[u])]_vars

\* a steady-state calendar pass has added a row after those it started
\* with, for an id the feed returned twice
C20_Witness ==
    \E p \in Procs :
      LET c == chk[p]
          rows == assignment_record[c.userId]
      IN  /\ c.kind = "calendar" /\ c.pc = "pass_done"
          /\ c.before # <<>>
          /\ Len(rows) = Len(c.before) + 2
          /\ IsPrefix(c.before, rows)
          /\ rows[Len(rows)].id = rows[Len(rows) - 1].id
          /\ rows[Len(rows)].shouldNotify # rows[Len(rows) - 1].shouldNotify

\* C21: over all the passes of one identity and one feed kind the
\* 'initialized' message reaches the user at most once, also when creating
\* records fails in some pass.
C21_InitDeliveredOnce ==
    \A u \in Users, kind \in Kinds : delivered[<<u, kind, "init">>] <= 1

\* the check failed for one cause: its login did not succeed, and all its
\* passes caught is the feed request that needs the login
SingleCause(c) ==
    /\ c.loginResult \in {"rejected", "iaaa_fault", "sso_fault"}
    /\ \A i \in DOMAIN c.failures : c.failures[i] = "feed"

\* C22: a check that fails for a single cause sends the user at most one
\* failure message.
C22_OneFailureMessage ==
    \A p \in Procs : SingleCause(chk[p]) => chk[p].errorMsgs <= 1

\* C23: a check whose decrypt of the stored secret threw issues no login
\* request and no feed or detail request, appends no record and sends no
\* notification.
C23_DecryptFailureIsFatal ==
    \A p \in Procs :
      LET c == chk[p]
      IN  c.decryptResult = "threw" =>
            /\ c.pc = "check_done"
            /\ c.loginResult = "none"
            /\ c.dataOps = {}
            /\ c.kind = "none"
            /\ c.sent = <<>>
            /\ c.created = <<>>

\* a blackboard.check of a bound identity has ended on the decrypt error
C23_Witness ==
    /\ chk["manual"].decryptResult = "threw"
    /\ chk["manual"].userId \in iaaa_user
    /\ chk["manual"].pc = "check_done"
    /\ chk["manual"].reply = "error"

\* the identity whose check takes the step, if the step is one of check p
Stepping(p) == chk'[p] # chk[p]
StepUser(p) == IF chk[p].userId # "none" THEN chk[p].userId ELSE chk'[p].userId

\* C24: a step of a check of identity A leaves the records of every other
\* identity B and the state (session, cookies) of every check of B as they
\* were.
C24_OtherIdentityUntouched ==
    [][\A p \in Procs :
         Stepping(p) =>
           /\ \A b \in Users \ {StepUser(p)} :
                /\ notice_record'[b] = notice_record[b]
                /\ assignment_record'[b] = assignment_record[b]
           /\ \A q \in Procs \ {p} :
                chk[q].userId # StepUser(p) => chk'[q] = chk[q]]_vars

\* the sweep's check of u2 has appended a row of u2 while a command's check
\* of u1 holds a logged-in session
C24_Witness ==
    /\ chk["sched"].userId = "u2"
    /\ \E j \in DOMAIN chk["sched"].created : chk["sched"].created[j].ok
    /\ notice_record["u2"] # <<>>
    /\ chk["manual"].userId = "u1"
    /\ chk["manual"].pc = "read"
    /\ Authenticated(chk["manual"])

\* a loadStream request has been sent in the current call
LoadIssued == \E i \in DOMAIN call.requests : call.requests[i].req = "load"

\* C25: in getNoticeData the stream request is sent only after the viewer
\* request has returned successfully and the pause has elapsed; when the
\* viewer request fails no stream request is sent and the call fails.
C25_StreamAfterViewerAndDelay ==
    (call.done /\ call.fn = "getNoticeData") =>
      /\ LoadIssued => (call.viewed = "ok" /\ call.delayed)
      /\ call.viewed = "failed" => (~LoadIssued /\ call.pc = "threw")
      /\ call.pc = "returned" => LoadIssued

\* a call has returned the stream after the viewer page set a cookie
C25_Witness ==
    /\ call.done /\ call.fn = "getNoticeData"
    /\ call.pc = "returned"
    /\ call.viewed = "ok" /\ call.delayed
    /\ Len(call.requests) = 2
    /\ call.requests[2] = Request("load", ("JSESSIONID" :> "j1") @@ ("s_session_id" :> "s1"))

\* C26: when the course's key is in the override map, the override set
\* alone decides, also when it is empty (then no item of the course is
\* eligible); the global set decides only for courses not in the map.
C26_OverrideAloneDecides ==
    LET config == ConfigOf("u1")
        overrides == config.specificCourseEvents
        key == toLowerCase(call.course)
    IN  call.done =>
          IF key \in DOMAIN overrides
          THEN call.result = includes(overrides[key], CategoryOf(call.event))
          ELSE call.result = includes(config.generalAllowedEvents, CategoryOf(call.event))

\* the text is a decimal integer numeral: an optional sign and digits only
\* (white space around it aside)
IsIntegerNumeral(text) ==
    LET s == trim(text)
        body == IF s # <<>> /\ Head(s) \in {"-", "+"} THEN Tail(s) ELSE s
    IN  body # <<>> /\ \A i \in DOMAIN body : IsDigit(body[i])

\* the text is a number: a numeral with at most one decimal point
IsNumeral(text) ==
    LET s == trim(text)
        body == IF s # <<>> /\ Head(s) \in {"-", "+"} THEN Tail(s) ELSE s
    IN  /\ body # <<>>
        /\ \A i \in DOMAIN body : IsDigit(body[i]) \/ body[i] = "."
        /\ Cardinality({i \in DOMAIN body : body[i] = "."}) <= 1
        /\ \E i \in DOMAIN body : IsDigit(body[i])

\* C27: the stored calendar lookahead is always an integer from 3 to 48;
\* a set request whose value is not a number or is outside that range
\* leaves it unchanged; the calendar pass never queries with a lookahead
\* of zero or less.
C27_LookaheadInRange ==
    /\ ConfigOf("u1").calendarAdvanceHours \in MIN_HOURS..MAX_HOURS
    /\ (call.done /\ call.fn = "config.set" /\ ~IsNumeral(call.typed)) =>
         ConfigOf("u1").calendarAdvanceHours = call.before
    /\ (call.done /\ call.fn = "config.set" /\ IsIntegerNumeral(call.typed)
          /\ parseInt(call.typed).n \notin MIN_HOURS..MAX_HOURS) =>
         ConfigOf("u1").calendarAdvanceHours = call.before
    /\ (call.done /\ call.fn = "calendar.process" /\ call.queried) => call.hours > 0

\* the links of the block the page's state selects
SelectedLinks(page) ==
    IF hasAttempted(page) THEN page.assignmentInfo ELSE page.instructions

\* C28: the attachment links are read from the previously-submitted block
\* when the page was attempted and from the instructions list element
\* otherwise, and k links found there give k attachment lines numbered
\* 1..k in document order.
C28_OneLinePerLink ==
    (call.done /\ call.fn = "parseInstruction") =>
      LET links == SelectedLinks(call.page)
          lines == call.result.attachments
      IN  /\ Len(lines) = Len(links)
          /\ \A i \in DOMAIN lines :
               lines[i].n = i /\ lines[i].label = trim(stripTags(links[i]))

\* C29: a sweep that has started ends having checked every bound identity,
\* whatever failed in the check of any of them.
C29_SweepChecksEveryIdentity ==
    (sweep.pc = "next" /\ sweep.queue # <<>>)
      ~> (sweep.pc = "next" /\ sweep.queue = <<>> /\ sweep.done = iaaa_user)

\* the sweep has started the check of u1 after u2's check, which failed
\* before u2's first notice pass could leave its marker
C29_Witness ==
    /\ sweep.pc = "check"
    /\ sweep.done = {"u2"}
    /\ chk["sched"].userId = "u1"
    /\ chk["sched"].pc = "login"
    /\ notice_record["u2"] = <<>>

\* the check p runs both passes and got as far as its first pass
BothPasses(c) ==
    c.bbConfig.notifyNotice /\ c.bbConfig.notifyAssignment /\ c.kind # "none"

\* the calendar pass of p starts in this step
CalendarStarts(p) == chk[p].kind # "calendar" /\ chk'[p].kind = "calendar"

\* C30: in a check with both feeds enabled the calendar pass starts only
\* when the notice pass has returned, and a check whose notice pass failed
\* does not end before its calendar pass has run.
C30_CalendarAfterNotice ==
    /\ [][\A p \in Procs :
            (CalendarStarts(p) /\ chk[p].bbConfig.notifyNotice) =>
               (chk[p].kind = "notice" /\ chk[p].pc = "pass_done")]_vars
    /\ [](\A p \in Procs :
            (chk[p].pc = "check_done" /\ BothPasses(chk[p]) /\ chk[p].failures # <<>>) =>
               chk[p].kind = "calendar")

\* the pass of p is past its first-run test and is not a first run
SteadyPass(c) == c.kind # "none" /\ ~c.isInit /\ c.pc \in {"notify", "persist", "pass_done", "catch"}

\* an item notification of p's pass is sent in this step
ItemSent(p) ==
    /\ Len(chk'[p].sent) = Len(chk[p].sent) + 1
    /\ chk'[p].sent[Len(chk'[p].sent)].type = "item"

\* ids of the items of the pass that reached the user
DeliveredIds(c) ==
    {c.sent[i].id : i \in {j \in DOMAIN c.sent : c.sent[j].type = "item" /\ c.sent[j].ok}}

\* C31: in a steady-state pass no notification is sent once a record of the
\* pass has been written, and every notification of the pass has been sent
\* by then; an item delivered by a pass that did not write its record is
\* not in the records when the pass ends, and a pass takes every feed entry
\* that is not in the records as new.
C31_NotifyBeforePersist ==
    /\ [][\A p \in Procs : ItemSent(p) => chk[p].created = <<>>]_vars
    /\ [](\A p \in Procs :
            (SteadyPass(chk[p]) /\ chk[p].created # <<>>) =>
               \A i \in DOMAIN chk[p].updated :
                  chk[p].updated[i].shouldNotify => chk[p].updated[i].id \in SentIds(chk[p], "item"))
    /\ [](\A p \in Procs :
            (SteadyPass(chk[p]) /\ PassOver(chk[p])) =>
               \A id \in DeliveredIds(chk[p]) \ CreatedIds(chk[p]) :
                  id \notin RecordIds(Table(chk[p].kind)[chk[p].userId]))
    /\ [](\A p \in Procs :
            (SteadyPass(chk[p]) /\ chk[p].error = "none") =>
               \A i \in DOMAIN chk[p].entries :
                  chk[p].entries[i] \notin RecordIds(chk[p].before) =>
                     chk[p].entries[i] \in UpdatedIds(chk[p]))

\* the second pass has delivered again the one item of its feed, which the
\* pass before delivered too and did not get into the records
C31_Witness ==
    \E p \in Procs : \E id \in NoticeIds :
       /\ chk[p].kind = "notice" /\ SteadyPass(chk[p])
       /\ chk[p].entries = <<id>>
       /\ id \notin RecordIds(chk[p].before)
       /\ id \in DeliveredIds(chk[p])
       /\ delivered[<<"u1", "notice", id>>] = 2

\* the page is an already-attempted page
AttemptedPage(page) == page.hasTitle /\ FirstTextCharIsMarker(page.title)

\* C32: a new entry of the personal calendar is marked shouldNotify with no
\* detail request; a new entry of a course calendar makes exactly one
\* detail request and is marked shouldNotify exactly when the page it got
\* is not an already-attempted page, and also when the request failed.
C32_CalendarEntryMarking ==
    (call.done /\ call.fn = "filterAssignmentInfo") =>
      IF call.entry.calendarName = Personal
      THEN call.shouldNotify /\ call.requests = 0
      ELSE /\ call.requests = 1
           /\ call.shouldNotify = (~call.outcome.fetched \/ ~AttemptedPage(call.outcome.page))

\* a course entry whose upload page, white space and a tag before the
\* marker, is an attempted page: not to be notified
C32_Witness ==
    /\ call.done /\ call.fn = "filterAssignmentInfo"
    /\ call.entry.calendarName = LinearAlgebraTerm
    /\ call.outcome = [fetched |-> TRUE, page |-> [hasTitle |-> TRUE, title |-> <<" ", MARKER, "S">>]]
    /\ ~call.shouldNotify

\* the rows of one identity
RowsOf(rows, u) == {r \in rows : r.userId = u}

\* C33: iaaa.bind changes the table only after the login with the typed
\* username and password succeeded, and then only the row of the user who
\* typed it; a rejected or failed login leaves the table as it was; no
\* identity ever has more than one row.
C33_BindOnlyAfterLogin ==
    /\ \A u \in Users : Cardinality(RowsOf(iaaa_credential, u)) <= 1
    /\ iaaa_user = {r.userId : r \in iaaa_credential}
    /\ (call.done /\ call.fn = "iaaa.bind") =>
         /\ call.outcome # "ok" => iaaa_credential = call.before
         /\ iaaa_credential # call.before => call.outcome = "ok"
         /\ \A u \in Users \ {call.userId} :
              RowsOf(iaaa_credential, u) = RowsOf(call.before, u)
         /\ call.reply = "bound" =>
              \E r \in iaaa_credential :
                 /\ r.userId = call.userId /\ r.username = call.username
                 /\ decrypt(ConfiguredKey, r.password) = {Returned(call.password)}

\* u1, bound before with the password p, has bound again with q: one row,
\* the new one
C33_Witness ==
    /\ call.done /\ call.fn = "iaaa.bind" /\ call.reply = "bound"
    /\ call.userId = "u1" /\ call.password = <<"q">>
    /\ \E r \in call.before : r.userId = "u1" /\ r.password.text = <<"p">>
    /\ \E r \in call.before : r.userId = "u2"
    /\ Cardinality(RowsOf(iaaa_credential, "u1")) = 1

\* the responses login() received: the identity provider's unless that
\* request failed, the platform's when the handshake went through
HandshakeResponses(c) ==
    (IF c.outcome = "iaaa_fault" THEN {} ELSE {c.iaaa}) \cup (IF c.outcome = "ok" THEN {c.sso} ELSE {})

\* C34: the client takes the cookies of the response of every request it
\* makes, the handshake's included, into its cookie map, never drops a
\* cookie from the map, and sends the whole map with every later request.
C34_CookiesOfEveryResponse ==
    (call.done /\ call.fn = "login") =>
       /\ \A setCookie \in HandshakeResponses(call) :
            \A n \in DOMAIN setCookie :
               (n # "" /\ setCookie[n] # "") => n \in DOMAIN call.cookies
       /\ DOMAIN call.before \subseteq DOMAIN call.cookies
       /\ call.attached = call.before

====
